---- MODULE Spec2Model ----
(***************************************************************************)
(* Double-entry ledger (src/src/ledger.py) and the purchase-order workflow *)
(* (src/src/orders.py).  Decimal amounts are modelled as exact integers    *)
(* (minor units); Python objects are modelled by identity: an Account      *)
(* object is a key of `balance`, a JournalEntry object is a key of         *)
(* `lines`.                                                                *)
(***************************************************************************)
EXTENDS Integers, Sequences, FiniteSets, TLC

VARIABLES
    balance,          \* Account.balance of every constructed Account object
    initial_balance,  \* ghost: the balance each Account was constructed with
    applied,          \* ghost: per Account, the amounts debit()/credit() applied
    accounts,         \* Ledger.accounts: name -> Account object
    journal_entries,  \* Ledger.journal_entries: sequence of JournalEntry objects
    lines,            \* JournalEntry.lines of every constructed JournalEntry
    outcome,          \* what the last direct call on Account/Ledger/JournalEntry did
    stock,            \* Product.stock of every product held by the Inventory
    order_data,       \* the order request handed to accept_purchase_order
    pc,               \* position of the accept_purchase_order run
    idx,              \* items whose stock the update loop has decremented
    processed_items,  \* new_order.items
    collection,       \* orders_collection: "None", or a collaborator "up"/"down"
    saved,            \* documents insert_one has stored
    result,           \* the dict accept_purchase_order returned
    pre               \* ghost: stock, balances and journal when the run started

vars == <<balance, initial_balance, applied, accounts, journal_entries, lines,
          outcome, stock, order_data, pc, idx, processed_items, collection,
          saved, result, pre>>

ledgerVars == <<balance, initial_balance, applied, accounts, journal_entries,
                lines, outcome>>
orderVars == <<stock, order_data, pc, idx, processed_items, collection, saved,
               result, pre>>

---------------------------------------------------------------------------
(* Bounds *)

MaxOps == 3          \* direct debit/credit calls in a run of AccountSpec
MaxLines == 2        \* lines the JournalEntry objects of a run hold in all
MaxEntries == 2      \* successful record_entry calls
MaxItems == 2        \* items of an order request
MaxEntryLines == 2   \* lines of one JournalEntry handed to a run of PostingSpec

None == "None"

---------------------------------------------------------------------------
(* AccountType, JournalEntryLineType and the Account objects *)

AccountType == {"Asset", "Liability", "Equity", "Income", "Expense"}

JournalEntryLineType == {"Debit", "Credit"}

\* The Account objects a run may construct, with the name and type each is
\* constructed with (name and account_type are never reassigned).
AllAccounts == {"cash", "revenue", "cogs", "inventory", "payable", "capital",
                "cash_dup"}

AccName(a) ==
    CASE a = "cash"      -> "Cash"
      [] a = "revenue"   -> "Sales Revenue"
      [] a = "cogs"      -> "Cost of Goods Sold"
      [] a = "inventory" -> "Inventory"
      [] a = "payable"   -> "Accounts Payable"
      [] a = "capital"   -> "Owner's Capital"
      [] a = "cash_dup"  -> "Cash"

AccType(a) ==
    CASE a = "cash"      -> "Asset"
      [] a = "revenue"   -> "Income"
      [] a = "cogs"      -> "Expense"
      [] a = "inventory" -> "Asset"
      [] a = "payable"   -> "Liability"
      [] a = "capital"   -> "Equity"
      [] a = "cash_dup"  -> "Liability"

\* Amounts a caller may pass to debit/credit/add_line.
Amounts == {-1, 0, 1, 2}

---------------------------------------------------------------------------
(* Account *)

\* Account._apply_transaction: the new balance, or a raise.
ApplyTransactionFlipIncome(bal, account_type, amount, is_debit) ==
    IF amount < 0 THEN [ok |-> FALSE, balance |-> bal]
    ELSE CASE account_type = "Asset" ->
                [ok |-> TRUE, balance |-> bal + (IF is_debit THEN amount ELSE -amount)]
           [] account_type = "Liability" ->
                [ok |-> TRUE, balance |-> bal + (IF is_debit THEN -amount ELSE amount)]
           [] account_type = "Equity" ->
                [ok |-> TRUE, balance |-> bal + (IF is_debit THEN -amount ELSE amount)]
           [] account_type = "Income" ->
                [ok |-> TRUE, balance |-> bal + (IF is_debit THEN amount ELSE -amount)]
           [] account_type = "Expense" ->
                [ok |-> TRUE, balance |-> bal + (IF is_debit THEN amount ELSE -amount)]
           [] OTHER -> [ok |-> FALSE, balance |-> bal]

ApplyTransactionStrict(bal, account_type, amount, is_debit) ==
    IF amount <= 0 THEN [ok |-> FALSE, balance |-> bal]
    ELSE IF account_type \in {"Asset", "Expense"}
    THEN [ok |-> TRUE, balance |-> bal + (IF is_debit THEN amount ELSE -amount)]
    ELSE [ok |-> TRUE, balance |-> bal + (IF is_debit THEN -amount ELSE amount)]

ApplyTransactionFloorZero(bal, account_type, amount, is_debit) ==
    LET r == ApplyTransactionStrict(bal, account_type, amount, is_debit)
    IN  IF amount = 0 THEN [ok |-> TRUE, balance |-> bal]
        ELSE [ok |-> r.ok, balance |-> IF r.balance < 0 THEN 0 ELSE r.balance]

ApplyTransaction(bal, account_type, amount, is_debit) ==
    IF amount < 0 THEN [ok |-> FALSE, balance |-> bal]
    ELSE CASE account_type = "Asset" ->
                [ok |-> TRUE, balance |-> bal + (IF is_debit THEN amount ELSE -amount)]
           [] account_type = "Liability" ->
                [ok |-> TRUE, balance |-> bal + (IF is_debit THEN -amount ELSE amount)]
           [] account_type = "Equity" ->
                [ok |-> TRUE, balance |-> bal + (IF is_debit THEN -amount ELSE amount)]
           [] account_type = "Income" ->
                [ok |-> TRUE, balance |-> bal + (IF is_debit THEN -amount ELSE amount)]
           [] account_type = "Expense" ->
                [ok |-> TRUE, balance |-> bal + (IF is_debit THEN amount ELSE -amount)]
           [] OTHER -> [ok |-> FALSE, balance |-> bal]

\* The ghost record of one applied amount.
Note(ap, a, amount, is_debit) ==
    [ap EXCEPT ![a] = IF is_debit
                      THEN [@ EXCEPT !.debit = @ + amount]
                      ELSE [@ EXCEPT !.credit = @ + amount]]

\* Account.debit / Account.credit on the balances `st.balance`: the state
\* after the call, st.ok FALSE once a call has raised (later calls of the
\* same handler are then not made).
Transact(st, a, amount, is_debit) ==
    IF ~st.ok THEN st
    ELSE LET r == ApplyTransaction(st.balance[a], AccType(a), amount, is_debit)
         IN  IF r.ok
             THEN [ok |-> TRUE,
                   balance |-> [st.balance EXCEPT ![a] = r.balance],
                   applied |-> Note(st.applied, a, amount, is_debit)]
             ELSE [st EXCEPT !.ok = FALSE]

debit(st, a, amount) == Transact(st, a, amount, TRUE)

credit(st, a, amount) == Transact(st, a, amount, FALSE)

Here == [ok |-> TRUE, balance |-> balance, applied |-> applied]

---------------------------------------------------------------------------
(* JournalEntryLine and JournalEntry *)

\* JournalEntryLine.__init__: the line, or a raise for an amount <= 0.
JournalEntryLineAnyAmount(a, amount, entry_type) ==
    [ok |-> TRUE,
     line |-> [account |-> a, amount |-> amount, entry_type |-> entry_type]]

JournalEntryLine(a, amount, entry_type) ==
    IF amount <= 0
    THEN [ok |-> FALSE, line |-> None]
    ELSE [ok |-> TRUE,
          line |-> [account |-> a, amount |-> amount, entry_type |-> entry_type]]

\* JournalEntry.add_line on the list of lines ls.
add_line(ls, a, amount, entry_type) ==
    LET l == JournalEntryLine(a, amount, entry_type)
    IN  IF l.ok THEN [ok |-> TRUE, lines |-> Append(ls, l.line)]
        ELSE [ok |-> FALSE, lines |-> ls]

RECURSIVE SumSide(_, _)
SumSide(ls, entry_type) ==
    IF ls = <<>> THEN 0
    ELSE (IF Head(ls).entry_type = entry_type THEN Head(ls).amount ELSE 0)
         + SumSide(Tail(ls), entry_type)

\* JournalEntry.is_balanced
is_balanced_count(ls) ==
    Cardinality({i \in DOMAIN ls : ls[i].entry_type = "Debit"})
      = Cardinality({i \in DOMAIN ls : ls[i].entry_type = "Credit"})

is_balanced_tolerant(ls) ==
    SumSide(ls, "Debit") - SumSide(ls, "Credit") \in {-1, 0, 1}

is_balanced(ls) == SumSide(ls, "Debit") = SumSide(ls, "Credit")

---------------------------------------------------------------------------
(* Ledger *)

\* Ledger.add_account on the mapping accts.
add_account_overwrite(accts, a) ==
    [ok |-> TRUE,
     accounts |-> [n \in DOMAIN accts \cup {AccName(a)} |->
                      IF n = AccName(a) THEN a ELSE accts[n]]]

add_account(accts, a) ==
    IF AccName(a) \in DOMAIN accts
    THEN [ok |-> FALSE, accounts |-> accts]
    ELSE [ok |-> TRUE, accounts |-> (AccName(a) :> a) @@ accts]

\* Ledger.get_account: an Account object is always truthy, so only an
\* absent name raises.
get_account_zero_is_absent(accts, name) ==
    IF name \in DOMAIN accts /\ balance[accts[name]] # 0
    THEN [ok |-> TRUE, account |-> accts[name]]
    ELSE [ok |-> FALSE, account |-> None]

get_account(accts, name) ==
    IF name \in DOMAIN accts
    THEN [ok |-> TRUE, account |-> accts[name]]
    ELSE [ok |-> FALSE, account |-> None]

\* The loop of Ledger.record_entry over entry.lines, in insertion order.
RECURSIVE ApplyLines(_, _)
ApplyLines(ls, st) ==
    IF ls = <<>> THEN st
    ELSE LET l == Head(ls)
         IN  ApplyLines(Tail(ls),
                        IF l.entry_type = "Debit"
                        THEN debit(st, l.account, l.amount)
                        ELSE credit(st, l.account, l.amount))

\* Ledger.record_entry of JournalEntry object e holding lines ls.
record_entry_unchecked(st, journal, e, ls) ==
    LET r == ApplyLines(ls, st)
    IN  [ok |-> r.ok, balance |-> r.balance, applied |-> r.applied,
         journal_entries |-> IF r.ok THEN Append(journal, e) ELSE journal]

record_entry_prepend(st, journal, e, ls) ==
    IF ~is_balanced(ls)
    THEN [ok |-> FALSE, balance |-> st.balance, applied |-> st.applied,
          journal_entries |-> journal]
    ELSE LET r == ApplyLines(ls, st)
         IN  [ok |-> r.ok, balance |-> r.balance, applied |-> r.applied,
              journal_entries |-> IF r.ok THEN <<e>> \o journal ELSE journal]

record_entry(st, journal, e, ls) ==
    IF ~is_balanced(ls)
    THEN [ok |-> FALSE, balance |-> st.balance, applied |-> st.applied,
          journal_entries |-> journal]
    ELSE LET r == ApplyLines(ls, st)
         IN  [ok |-> r.ok, balance |-> r.balance, applied |-> r.applied,
              journal_entries |-> IF r.ok THEN Append(journal, e) ELSE journal]

---------------------------------------------------------------------------
(* Direct calls on Account objects: AccountSpec *)

Call(op, ok, e, a, amount, n) ==
    [op |-> op, ok |-> ok, entry |-> e, account |-> a, amount |-> amount,
     calls |-> n]

NoCall == Call("none", TRUE, 0, None, 0, 0)

NoOrder ==
    /\ stock = <<>>
    /\ order_data = None
    /\ pc = "idle"
    /\ idx = 0
    /\ processed_items = <<>>
    /\ collection = None
    /\ saved = 0
    /\ result = None
    /\ pre = None

\* One Account object of each AccountType.
AccountObjects == {"cash", "payable", "capital", "revenue", "cogs"}

InitialBalances == {0, 10}

AccountInit ==
    /\ \E b \in InitialBalances : balance = [a \in AccountObjects |-> b]
    /\ initial_balance = balance
    /\ applied = [a \in AccountObjects |-> [debit |-> 0, credit |-> 0]]
    /\ accounts = <<>>
    /\ journal_entries = <<>>
    /\ lines = <<>>
    /\ outcome = NoCall
    /\ NoOrder

\* account.debit(amount), called directly
Debit(a, amount) ==
    /\ outcome.calls < MaxOps
    /\ LET r == debit(Here, a, amount)
       IN  /\ balance' = r.balance
           /\ applied' = r.applied
           /\ outcome' = Call("debit", r.ok, 0, a, amount, outcome.calls + 1)
    /\ UNCHANGED <<initial_balance, accounts, journal_entries, lines>>
    /\ UNCHANGED orderVars

\* account.credit(amount), called directly
Credit(a, amount) ==
    /\ outcome.calls < MaxOps
    /\ LET r == credit(Here, a, amount)
       IN  /\ balance' = r.balance
           /\ applied' = r.applied
           /\ outcome' = Call("credit", r.ok, 0, a, amount, outcome.calls + 1)
    /\ UNCHANGED <<initial_balance, accounts, journal_entries, lines>>
    /\ UNCHANGED orderVars

AccountNext ==
    \E a \in DOMAIN balance, amount \in Amounts :
        \/ Debit(a, amount)
        \/ Credit(a, amount)

AccountSpec == AccountInit /\ [][AccountNext]_vars

---------------------------------------------------------------------------
(* Direct calls on a Ledger and its JournalEntry objects: LedgerSpec *)

\* The Account objects of a LedgerSpec run.
LedgerObjects == {"cash", "revenue"}

\* The names get_account is called with.
LedgerNames == {"Cash", "Sales Revenue", "Inventory"}

\* The accounts and amounts add_line is called with.
LineAccounts == {"cash", "revenue"}

LineAmounts == {-1, 0, 1, 2}

RECURSIVE TotalLines(_, _)
TotalLines(ls, ids) ==
    IF ids = {} THEN 0
    ELSE LET e == CHOOSE x \in ids : TRUE
         IN  Len(ls[e]) + TotalLines(ls, ids \ {e})

\* The JournalEntry objects a run may construct (entry_id is a fresh uuid4:
\* the next unused number).
EntryIds == {1, 2}

LedgerInit ==
    /\ balance \in [LedgerObjects -> {0}]
    /\ initial_balance = balance
    /\ applied = [a \in LedgerObjects |-> [debit |-> 0, credit |-> 0]]
    /\ accounts = <<>>          \* Ledger.__init__
    /\ journal_entries = <<>>
    /\ lines = <<>>
    /\ outcome = NoCall
    /\ NoOrder

\* ledger.add_account(a)
AddAccount(a) ==
    /\ LET r == add_account(accounts, a)
       IN  /\ accounts' = r.accounts
           /\ outcome' = Call("add_account", r.ok, 0, a, 0, 0)
    /\ UNCHANGED <<balance, initial_balance, applied, journal_entries, lines>>
    /\ UNCHANGED orderVars

\* ledger.get_account(name)
GetAccount(name) ==
    /\ LET r == get_account(accounts, name)
       IN  outcome' = Call("get_account", r.ok, 0, r.account, 0, 0)
    /\ UNCHANGED <<balance, initial_balance, applied, accounts, journal_entries,
                   lines>>
    /\ UNCHANGED orderVars

\* JournalEntry(date, description)
NewEntry ==
    /\ \E e \in EntryIds :
          /\ e \notin DOMAIN lines
          /\ \A f \in EntryIds : f < e => f \in DOMAIN lines
          /\ lines' = lines @@ (e :> <<>>)
          /\ outcome' = Call("JournalEntry", TRUE, e, None, 0, 0)
    /\ UNCHANGED <<balance, initial_balance, applied, accounts, journal_entries>>
    /\ UNCHANGED orderVars

\* entry.add_line(a, amount, entry_type)
AddLine(e, a, amount, entry_type) ==
    /\ TotalLines(lines, DOMAIN lines) < MaxLines
    /\ LET r == add_line(lines[e], a, amount, entry_type)
       IN  /\ lines' = [lines EXCEPT ![e] = r.lines]
           /\ outcome' = Call("add_line", r.ok, e, None, amount, 0)
    /\ UNCHANGED <<balance, initial_balance, applied, accounts, journal_entries>>
    /\ UNCHANGED orderVars

\* entry.is_balanced()
IsBalanced(e) ==
    /\ outcome' = Call("is_balanced", is_balanced(lines[e]), e, None, 0, 0)
    /\ UNCHANGED <<balance, initial_balance, applied, accounts, journal_entries,
                   lines>>
    /\ UNCHANGED orderVars

\* ledger.record_entry(entry)
RecordEntry(e) ==
    /\ Len(journal_entries) < MaxEntries
    /\ LET r == record_entry(Here, journal_entries, e, lines[e])
       IN  /\ balance' = r.balance
           /\ applied' = r.applied
           /\ journal_entries' = r.journal_entries
           /\ outcome' = Call("record_entry", r.ok, e, None, 0, 0)
    /\ UNCHANGED <<initial_balance, accounts, lines>>
    /\ UNCHANGED orderVars

LedgerNext ==
    \/ \E a \in DOMAIN balance : AddAccount(a)
    \/ NewEntry
    \/ \E e \in DOMAIN lines, a \in LineAccounts, amount \in LineAmounts,
          entry_type \in JournalEntryLineType : AddLine(e, a, amount, entry_type)
    \/ \E e \in DOMAIN lines : RecordEntry(e)

LedgerSpec == LedgerInit /\ [][LedgerNext]_vars

---------------------------------------------------------------------------
(* JournalEntry objects on their own: EntrySpec *)

EntryNext ==
    \/ NewEntry
    \/ \E e \in DOMAIN lines, a \in LineAccounts, amount \in LineAmounts,
          entry_type \in JournalEntryLineType : AddLine(e, a, amount, entry_type)
    \/ \E e \in DOMAIN lines : IsBalanced(e)

EntrySpec == LedgerInit /\ [][EntryNext]_vars

---------------------------------------------------------------------------
(* record_entry on entries built beforehand: PostingSpec *)

\* The lines add_line can have built: the amount of a line is positive.
LineValues ==
    {[account |-> a, amount |-> amount, entry_type |-> entry_type] :
        a \in LineAccounts, amount \in {m \in LineAmounts : m > 0},
        entry_type \in JournalEntryLineType}

EntryLines == UNION {[1..n -> LineValues] : n \in 0..MaxEntryLines}

\* The entries handed to record_entry are balanced ones.
BalancedEntryLines == {ls \in EntryLines : is_balanced(ls)}

PostingInit ==
    /\ balance = [a \in LedgerObjects |-> 0]
    /\ initial_balance = balance
    /\ applied = [a \in LedgerObjects |-> [debit |-> 0, credit |-> 0]]
    /\ accounts = [n \in {AccName(a) : a \in LedgerObjects} |->
                      CHOOSE a \in LedgerObjects : AccName(a) = n]
    /\ journal_entries = <<>>
    /\ lines \in [EntryIds -> BalancedEntryLines]
    /\ outcome = NoCall
    /\ NoOrder

PostingNext == \E e \in DOMAIN lines : RecordEntry(e)

PostingSpec == PostingInit /\ [][PostingNext]_vars

---------------------------------------------------------------------------
(* The registry of a Ledger: RegistrySpec *)

\* Two Account objects are named 'Cash'.
RegistryObjects == {"cash", "cash_dup", "revenue"}

RegistryInit ==
    /\ balance \in [RegistryObjects -> InitialBalances]
    /\ initial_balance = balance
    /\ applied = [a \in RegistryObjects |-> [debit |-> 0, credit |-> 0]]
    /\ accounts = <<>>          \* Ledger.__init__
    /\ journal_entries = <<>>
    /\ lines = <<>>
    /\ outcome = NoCall
    /\ NoOrder

RegistryNext ==
    \/ \E a \in DOMAIN balance : AddAccount(a)
    \/ \E name \in LedgerNames : GetAccount(name)

RegistrySpec == RegistryInit /\ [][RegistryNext]_vars

---------------------------------------------------------------------------
(* Product and Inventory *)

\* The products the Inventory holds ("px" is a product id it does not hold),
\* and the cost_price each Product was constructed with: "p2" was given no
\* cost_price, which Product.__init__ turns into 0.00.
InventoryProducts == {"p1", "p2"}

ProductIds == InventoryProducts \cup {"px"}

CostPrice(product_id) == IF product_id = "p1" THEN 1 ELSE 0

InitialStock == ("p1" :> 2) @@ ("p2" :> 1)

\* Product.check_stock
product_check_stock_any(stk, quantity) == stk > 0

product_check_stock(stk, quantity) == stk >= quantity

\* Product.update_stock: the new stock, or a raise.
product_update_stock_unchecked(stk, quantity) ==
    [ok |-> TRUE, stock |-> stk - quantity]

product_update_stock(stk, quantity) ==
    IF product_check_stock(stk, quantity)
    THEN [ok |-> TRUE, stock |-> stk - quantity]
    ELSE [ok |-> FALSE, stock |-> stk]

\* Inventory.get_product is self.products.get(product_id): the product_id
\* is in DOMAIN stk, or the call returns None.

\* Inventory.check_stock
inventory_check_stock(stk, product_id, quantity) ==
    IF product_id \in DOMAIN stk
    THEN product_check_stock(stk[product_id], quantity)
    ELSE FALSE

\* Inventory.update_stock: the new stocks, or a raise.
inventory_update_stock(stk, product_id, quantity) ==
    IF product_id \in DOMAIN stk
    THEN LET r == product_update_stock(stk[product_id], quantity)
         IN  [ok |-> r.ok, stock |-> [stk EXCEPT ![product_id] = r.stock]]
    ELSE [ok |-> FALSE, stock |-> stk]

\* Inventory.get_product_cost, with the caller's replacement of None by 0.00.
unit_cost_of(stk, product_id) ==
    IF product_id \in DOMAIN stk THEN CostPrice(product_id) ELSE 0

---------------------------------------------------------------------------
(* Order requests *)

ItemFields == {"product_id", "quantity", "unit_price"}

Item(fields, product_id, quantity, is_int, unit_price) ==
    [fields |-> fields, product_id |-> product_id, quantity |-> quantity,
     is_int |-> is_int, unit_price |-> unit_price]

\* Items that pass validation.
WellFormedItems ==
    {Item(ItemFields, p, q, TRUE, u) : p \in ProductIds, q \in {1, 2}, u \in {0, 1}}

\* One item for each way an item fails validation.
MalformedItems ==
    {Item(ItemFields \ {f}, "p1", 1, TRUE, 1) : f \in ItemFields}
      \cup {Item(ItemFields, "p1", 1, FALSE, 1),   \* quantity 1.0, "1", ...
            Item(ItemFields, "p1", 0, TRUE, 1),
            Item(ItemFields, "p1", -1, TRUE, 1),
            Item(ItemFields, "p1", 1, TRUE, -1)}

ItemValues == WellFormedItems \cup MalformedItems

ItemLists == UNION {[1..n -> ItemValues] : n \in 0..MaxItems}

Request(has_customer_id, items_kind, items) ==
    [has_customer_id |-> has_customer_id, items_kind |-> items_kind,
     items |-> items]

\* order_data: the key 'customer_id' present or not; the key 'items'
\* missing, holding something that is no list, or holding a list.
OrderRequests ==
    {Request(TRUE, "list", l) : l \in ItemLists}
      \cup {Request(c, k, <<>>) : c \in BOOLEAN, k \in {"missing", "not_a_list", "list"}}
      \cup {Request(FALSE, "list", <<i>>) : i \in WellFormedItems}

---------------------------------------------------------------------------
(* accept_purchase_order *)

\* float(total_amount): the double nearest to the Decimal, kept apart from
\* the exact amount it was made from.
to_float(amount) == [nearest_double_to |-> amount]

\* str(uuid.uuid4()) of the run.
NewOrderId == "order-1"

\* The dict a run returns; an error result has the keys status and message
\* only.
Result(status, message, order_id, total_amount) ==
    [status |-> status, message |-> message, order_id |-> order_id,
     total_amount |-> total_amount]

NoResult == Result("none", "", None, None)

Error(message) == Result("error", message, None, None)

\* The validation of one item.
item_quantity_bound_loose(item) == item.quantity < 0

item_quantity_bound(item) == item.quantity <= 0

validate_item(item) ==
    IF ~(ItemFields \subseteq item.fields)
    THEN "Invalid item data in order"
    ELSE IF ~item.is_int \/ item_quantity_bound(item)
    THEN "Item quantity must be a positive integer"
    ELSE IF item.unit_price < 0
    THEN "Item unit price must be a non-negative number"
    ELSE "ok"

\* The loop over order_data['items'] that builds processed_items.
RECURSIVE process_items(_, _, _)
process_items(items, stk, done) ==
    IF items = <<>> THEN [ok |-> TRUE, message |-> "", items |-> done]
    ELSE LET item == Head(items)
             v == validate_item(item)
         IN  IF v # "ok" THEN [ok |-> FALSE, message |-> v, items |-> <<>>]
             ELSE process_items(Tail(items), stk,
                    Append(done, [product_id |-> item.product_id,
                                  quantity |-> item.quantity,
                                  unit_price |-> item.unit_price,
                                  unit_cost |-> unit_cost_of(stk, item.product_id)]))

\* The validation of order_data.
validate(o, stk) ==
    IF ~o.has_customer_id \/ o.items_kind = "missing"
    THEN [ok |-> FALSE, message |-> "Missing required order information",
          items |-> <<>>]
    ELSE IF o.items_kind # "list" \/ o.items = <<>>
    THEN [ok |-> FALSE, message |-> "Order must contain at least one item",
          items |-> <<>>]
    ELSE process_items(o.items, stk, <<>>)

\* The loop that checks the stock of every item.
all_in_stock(items, stk) ==
    \A i \in DOMAIN items :
        inventory_check_stock(stk, items[i].product_id, items[i].quantity)

\* Order.calculate_total
RECURSIVE calculate_total_unit_prices(_)
calculate_total_unit_prices(items) ==
    IF items = <<>> THEN 0
    ELSE Head(items).unit_price + calculate_total_unit_prices(Tail(items))

RECURSIVE calculate_total(_)
calculate_total(items) ==
    IF items = <<>> THEN 0
    ELSE Head(items).quantity * Head(items).unit_price + calculate_total(Tail(items))

\* Order.calculate_total_cost_of_goods_sold
RECURSIVE calculate_total_cost_of_goods_sold(_)
calculate_total_cost_of_goods_sold(items) ==
    IF items = <<>> THEN 0
    ELSE Head(items).quantity * Head(items).unit_cost
         + calculate_total_cost_of_goods_sold(Tail(items))

Posted(ok, message, st, journal, ls) ==
    [ok |-> ok, message |-> message, balance |-> st.balance,
     applied |-> st.applied, journal_entries |-> journal, lines |-> ls]

FailedToRecord == "Failed to record financial transaction"

\* The end of step 6: the balance check and ledger_system.record_entry.
record_sale(st, journal, e, ls) ==
    IF ~is_balanced(ls)
    THEN Posted(FALSE, "Internal error: Journal entry for sale is not balanced",
                st, journal, ls)
    ELSE LET r == record_entry(st, journal, e, ls)
         IN  Posted(r.ok, IF r.ok THEN "" ELSE FailedToRecord,
                    r, r.journal_entries, ls)

\* The COGS pair of step 6, added when total_cogs > 0.
add_cogs_lines_never(accts, st, journal, e, ls, total_cogs) ==
    record_sale(st, journal, e, ls)

add_cogs_lines_after_sale(accts, st, journal, e, ls, total_cogs) ==
    LET s == record_sale(st, journal, e, ls)
        cogs == get_account(accts, "Cost of Goods Sold")
        inv == get_account(accts, "Inventory")
    IN  IF ~(total_cogs > 0) \/ ~s.ok THEN s
        ELSE IF ~cogs.ok \/ ~inv.ok
        THEN Posted(FALSE, FailedToRecord, s, s.journal_entries, ls)
        ELSE record_sale(st, journal, e,
                         add_line(add_line(ls, cogs.account, total_cogs, "Debit").lines,
                                  inv.account, total_cogs, "Credit").lines)

add_cogs_lines_always(accts, st, journal, e, ls, total_cogs) ==
    LET cogs == get_account(accts, "Cost of Goods Sold")
        inv == get_account(accts, "Inventory")
    IN  IF ~cogs.ok \/ ~inv.ok
        THEN Posted(FALSE, FailedToRecord, st, journal, ls)
        ELSE LET l3 == add_line(ls, cogs.account, total_cogs, "Debit")
                 l4 == add_line(l3.lines, inv.account, total_cogs, "Credit")
             IN  IF ~l3.ok \/ ~l4.ok
                 THEN Posted(FALSE, FailedToRecord, st, journal, l4.lines)
                 ELSE record_sale(st, journal, e, l4.lines)

add_cogs_lines(accts, st, journal, e, ls, total_cogs) ==
    IF ~(total_cogs > 0) THEN record_sale(st, journal, e, ls)
    ELSE LET cogs == get_account(accts, "Cost of Goods Sold")
             inv == get_account(accts, "Inventory")
         IN  IF ~cogs.ok \/ ~inv.ok
             THEN Posted(FALSE, FailedToRecord, st, journal, ls)
             ELSE LET l3 == add_line(ls, cogs.account, total_cogs, "Debit")
                      l4 == add_line(l3.lines, inv.account, total_cogs, "Credit")
                  IN  IF ~l3.ok \/ ~l4.ok
                      THEN Posted(FALSE, FailedToRecord, st, journal, l4.lines)
                      ELSE record_sale(st, journal, e, l4.lines)

\* Step 6, the try block: the sale entry e is built and recorded; a
\* ValueError raised on the way is caught and becomes an error result.
post_sale_net_of_cost(accts, st, journal, e, total_amount, total_cogs) ==
    LET c == get_account(accts, "Cash")
        r == get_account(accts, "Sales Revenue")
    IN  IF ~c.ok \/ ~r.ok
        THEN Posted(FALSE, FailedToRecord, st, journal, <<>>)
        ELSE LET l1 == add_line(<<>>, c.account, total_amount, "Debit")
                 l2 == add_line(l1.lines, r.account, total_amount - total_cogs, "Credit")
             IN  IF ~l1.ok \/ ~l2.ok
                 THEN Posted(FALSE, FailedToRecord, st, journal, l2.lines)
                 ELSE add_cogs_lines(accts, st, journal, e, l2.lines, total_cogs)

post_sale(accts, st, journal, e, total_amount, total_cogs) ==
    LET c == get_account(accts, "Cash")
        r == get_account(accts, "Sales Revenue")
    IN  IF ~c.ok \/ ~r.ok
        THEN Posted(FALSE, FailedToRecord, st, journal, <<>>)
        ELSE LET l1 == add_line(<<>>, c.account, total_amount, "Debit")
                 l2 == add_line(l1.lines, r.account, total_amount, "Credit")
             IN  IF ~l1.ok \/ ~l2.ok
                 THEN Posted(FALSE, FailedToRecord, st, journal, l2.lines)
                 ELSE add_cogs_lines(accts, st, journal, e, l2.lines, total_cogs)

\* The order of the numbered steps of accept_purchase_order.
next_step_unchecked(step) ==
    CASE step = "Validating"    -> "StockReserved"
      [] step = "StockChecking" -> "StockReserved"
      [] step = "StockReserved" -> "Saving"
      [] step = "Saving"        -> "Posting"
      [] step = "Posting"       -> "Completed"

next_step_post_first(step) ==
    CASE step = "Validating"    -> "StockChecking"
      [] step = "StockChecking" -> "StockReserved"
      [] step = "StockReserved" -> "Posting"
      [] step = "Posting"       -> "Saving"
      [] step = "Saving"        -> "Completed"

next_step(step) ==
    CASE step = "Validating"    -> "StockChecking"
      [] step = "StockChecking" -> "StockReserved"
      [] step = "StockReserved" -> "Saving"
      [] step = "Saving"        -> "Posting"
      [] step = "Posting"       -> "Completed"

\* The Account objects of an OrderSpec run; any of them may have been
\* registered with ledger.add_account before the order arrives.
OrderObjects == {"cash", "revenue", "cogs", "inventory"}

Registry(as) == [n \in {AccName(a) : a \in as} |-> CHOOSE a \in as : AccName(a) = n]

OrderInit ==
    /\ balance = [a \in OrderObjects |-> 0]
    /\ initial_balance = balance
    /\ applied = [a \in OrderObjects |-> [debit |-> 0, credit |-> 0]]
    /\ \E as \in SUBSET OrderObjects : accounts = Registry(as)
    /\ journal_entries = <<>>
    /\ lines = <<>>
    /\ outcome = NoCall
    /\ stock = InitialStock
    /\ order_data \in OrderRequests
    /\ pc = "Validating"
    /\ idx = 0
    /\ processed_items = <<>>
    /\ collection \in {None, "orders"}
    /\ saved = 0
    /\ result = NoResult
    /\ pre = [stock |-> stock, balance |-> balance,
              journal_entries |-> journal_entries]

\* The run moves on to the step after `step`; after the last one it returns
\* the success result.
Proceed(step) ==
    /\ pc' = next_step(step)
    /\ result' = IF next_step(step) = "Completed"
                 THEN Result("success", "Purchase order accepted.", NewOrderId,
                             to_float(calculate_total(processed_items)))
                 ELSE result

\* return {"status": "error", ...}
Return(message) ==
    /\ pc' = "Error"
    /\ result' = Error(message)

\* Validation of order_data and of its items; builds processed_items.
Validate ==
    /\ pc = "Validating"
    /\ LET v == validate(order_data, stock)
       IN  IF v.ok
           THEN /\ processed_items' = v.items
                /\ Proceed("Validating")
           ELSE /\ processed_items' = processed_items
                /\ Return(v.message)
    /\ UNCHANGED <<stock, order_data, idx, collection, saved, pre>>
    /\ UNCHANGED ledgerVars

\* Step 2, first loop: every item is checked against the stock.
CheckStock ==
    /\ pc = "StockChecking"
    /\ IF all_in_stock(processed_items, stock)
       THEN Proceed("StockChecking")
       ELSE Return("Insufficient stock")
    /\ UNCHANGED <<stock, order_data, idx, processed_items, collection, saved, pre>>
    /\ UNCHANGED ledgerVars

\* Step 2, second loop: one iteration, inventory_system.update_stock for the
\* next item.  Its ValueError is not caught: the run ends by raising.
UpdateStock ==
    /\ pc = "StockReserved"
    /\ idx < Len(processed_items)
    /\ LET item == processed_items[idx + 1]
           r == inventory_update_stock(stock, item.product_id, item.quantity)
       IN  IF r.ok
           THEN /\ stock' = r.stock
                /\ idx' = idx + 1
                /\ IF idx + 1 = Len(processed_items)
                   THEN Proceed("StockReserved")
                   ELSE UNCHANGED <<pc, result>>
           ELSE /\ pc' = "Raised"
                /\ UNCHANGED <<stock, idx, result>>
    /\ UNCHANGED <<order_data, processed_items, collection, saved, pre>>
    /\ UNCHANGED ledgerVars

\* Step 5: orders_collection.insert_one(new_order.to_dict()), skipped when
\* no collection was given; the collaborator may raise.
SaveOrder ==
    /\ pc = "Saving"
    /\ \/ /\ collection = None
          /\ saved' = saved
          /\ Proceed("Saving")
       \/ /\ collection # None
          /\ saved' = saved + 1
          /\ Proceed("Saving")
       \/ /\ collection # None
          /\ saved' = saved
          /\ Return("Failed to save order to database")
    /\ UNCHANGED <<stock, order_data, idx, processed_items, collection, pre>>
    /\ UNCHANGED ledgerVars

\* Step 6: the sale entry is built and recorded.
PostEntry ==
    /\ pc = "Posting"
    /\ LET e == Cardinality(DOMAIN lines) + 1
           r == post_sale(accounts, Here, journal_entries, e,
                          calculate_total(processed_items),
                          calculate_total_cost_of_goods_sold(processed_items))
       IN  /\ balance' = r.balance
           /\ applied' = r.applied
           /\ journal_entries' = r.journal_entries
           /\ lines' = lines @@ (e :> r.lines)
           /\ IF r.ok THEN Proceed("Posting") ELSE Return(r.message)
    /\ UNCHANGED <<initial_balance, accounts, outcome>>
    /\ UNCHANGED <<stock, order_data, idx, processed_items, collection, saved, pre>>

OrderNext ==
    \/ Validate
    \/ CheckStock
    \/ UpdateStock
    \/ SaveOrder
    \/ PostEntry

OrderSpec == OrderInit /\ [][OrderNext]_vars

---------------------------------------------------------------------------
(* Direct calls on the Inventory, then an order: InventorySpec *)

\* The quantities check_stock and update_stock are called with (the payment
\* rollback of accept_purchase_order passes a negative one).
Quantities == {-1, 0, 1, 2, 3}

\* The orders of an InventorySpec run: valid requests of one to MaxItems
\* items, each for one or two units of a product id at unit price 1.
StockItems == {Item(ItemFields, p, q, TRUE, 1) : p \in ProductIds, q \in {1, 2}}

StockRequests ==
    {Request(TRUE, "list", l) : l \in UNION {[1..n -> StockItems] : n \in 1..MaxItems}}

InventoryInit ==
    /\ balance = [a \in OrderObjects |-> 0]
    /\ initial_balance = balance
    /\ applied = [a \in OrderObjects |-> [debit |-> 0, credit |-> 0]]
    /\ accounts = Registry(OrderObjects)
    /\ journal_entries = <<>>
    /\ lines = <<>>
    /\ outcome = NoCall
    /\ stock = InitialStock
    /\ order_data = None
    /\ pc = "idle"
    /\ idx = 0
    /\ processed_items = <<>>
    /\ collection = None
    /\ saved = 0
    /\ result = NoResult
    /\ pre = None

\* inventory.check_stock(product_id, quantity)
InventoryCheckStock(product_id, quantity) ==
    /\ pc = "idle"
    /\ outcome' = Call("check_stock",
                       inventory_check_stock(stock, product_id, quantity),
                       0, product_id, quantity, outcome.calls)
    /\ UNCHANGED <<balance, initial_balance, applied, accounts, journal_entries,
                   lines>>
    /\ UNCHANGED orderVars

\* inventory.update_stock(product_id, quantity)
InventoryUpdateStock(product_id, quantity) ==
    /\ pc = "idle"
    /\ outcome.calls < MaxOps
    /\ LET r == inventory_update_stock(stock, product_id, quantity)
       IN  /\ stock' = r.stock
           /\ outcome' = Call("update_stock", r.ok, 0, product_id, quantity,
                              outcome.calls + 1)
    /\ UNCHANGED <<balance, initial_balance, applied, accounts, journal_entries,
                   lines>>
    /\ UNCHANGED <<order_data, pc, idx, processed_items, collection, saved,
                   result, pre>>

\* accept_purchase_order(o, inventory, ledger, datetime, c) is called.
ReceiveOrder(o, c) ==
    /\ pc = "idle"
    /\ order_data' = o
    /\ collection' = c
    /\ pc' = "Validating"
    /\ pre' = [stock |-> stock, balance |-> balance,
               journal_entries |-> journal_entries]
    /\ outcome' = NoCall
    /\ UNCHANGED <<balance, initial_balance, applied, accounts, journal_entries,
                   lines>>
    /\ UNCHANGED <<stock, idx, processed_items, saved, result>>

InventoryNext ==
    \/ \E product_id \in ProductIds, quantity \in Quantities :
          InventoryCheckStock(product_id, quantity)
    \/ \E product_id \in ProductIds, quantity \in Quantities :
          InventoryUpdateStock(product_id, quantity)
    \/ \E o \in StockRequests, c \in {None, "orders"} : ReceiveOrder(o, c)
    \/ OrderNext

InventorySpec == InventoryInit /\ [][InventoryNext]_vars

---------------------------------------------------------------------------
(* Vocabulary of the properties *)

\* The polarity table: +1 where a debit increases the balance.
Polarity(account_type) ==
    IF account_type \in {"Asset", "Expense"} THEN 1 ELSE -1

\* Total of the lines of ls on account a and side entry_type.
RECURSIVE LineSum(_, _, _)
LineSum(ls, a, entry_type) ==
    IF ls = <<>> THEN 0
    ELSE (IF Head(ls).account = a /\ Head(ls).entry_type = entry_type
          THEN Head(ls).amount ELSE 0)
         + LineSum(Tail(ls), a, entry_type)

DebitTotal(ls) == SumSide(ls, "Debit")

CreditTotal(ls) == SumSide(ls, "Credit")

\* The accounts registered in the ledger.
Registered(accts) == {accts[n] : n \in DOMAIN accts}

RECURSIVE SumOver(_, _, _)
SumOver(bal, as, types) ==
    IF as = {} THEN 0
    ELSE LET a == CHOOSE x \in as : TRUE
         IN  (IF AccType(a) \in types THEN bal[a] ELSE 0)
             + SumOver(bal, as \ {a}, types)

\* Assets - (Liabilities + Equity), with Income - Expense folded into Equity.
Aggregate(bal, as) ==
    SumOver(bal, as, {"Asset"})
      - (SumOver(bal, as, {"Liability", "Equity"})
         + (SumOver(bal, as, {"Income"}) - SumOver(bal, as, {"Expense"})))

RecordStep(e) == outcome'.op = "record_entry" /\ outcome'.entry = e

---------------------------------------------------------------------------
(* Ledger posting: C1 - C4 *)

\* C1: record_entry of an entry whose debit total differs from its credit
\* total is rejected, and the rejection changes no account balance and
\* leaves the committed sequence as it was.
C1_UnbalancedRejected ==
    [][\A e \in DOMAIN lines :
          (RecordStep(e) /\ DebitTotal(lines[e]) # CreditTotal(lines[e]))
          => /\ ~outcome'.ok
             /\ balance' = balance
             /\ journal_entries' = journal_entries]_vars

C1_Witness ==
    /\ outcome.op = "record_entry"
    /\ ~outcome.ok
    /\ DebitTotal(lines[outcome.entry]) > 0
    /\ CreditTotal(lines[outcome.entry]) > 0
    /\ DebitTotal(lines[outcome.entry]) # CreditTotal(lines[outcome.entry])

\* C2: every record_entry call leaves the aggregate Assets - (Liabilities +
\* Equity), Income - Expense folded into Equity, over the ledger's registered
\* accounts as it was (so an aggregate that starts at zero stays zero).
C2_AggregatePreserved ==
    [][outcome'.op = "record_entry"
       => Aggregate(balance', Registered(accounts))
            = Aggregate(balance, Registered(accounts))]_vars

\* C3: every account's balance is its initial balance plus the signed sum of
\* the amounts applied to it: debits minus credits for Asset and Expense,
\* credits minus debits for Liability, Equity and Income.
C3_BalanceIsSignedSum ==
    \A a \in DOMAIN balance :
        balance[a] = initial_balance[a]
                     + Polarity(AccType(a)) * (applied[a].debit - applied[a].credit)

C3_Witness ==
    /\ outcome.calls = MaxOps
    /\ \E a \in DOMAIN balance :
          /\ AccType(a) = "Income"
          /\ applied[a].debit = 1
          /\ applied[a].credit = 2
          /\ balance[a] = initial_balance[a] + 1
    /\ \E a \in DOMAIN balance :
          /\ AccType(a) = "Asset"
          /\ applied[a].debit = 2
          /\ balance[a] = initial_balance[a] + 2

\* C4: record_entry of a balanced entry applies every line exactly once to
\* its account and appends the entry as the last element of the committed
\* sequence; no step changes a balance without committing an entry, and the
\* committed sequence only ever grows by one entry at its end.
C4_AppliedOnceAndAppended ==
    [][/\ \A e \in DOMAIN lines :
            (RecordStep(e) /\ DebitTotal(lines[e]) = CreditTotal(lines[e]))
            => /\ outcome'.ok
               /\ journal_entries' = Append(journal_entries, e)
               /\ \A a \in DOMAIN balance :
                     balance'[a] = balance[a]
                        + Polarity(AccType(a))
                          * (LineSum(lines[e], a, "Debit")
                             - LineSum(lines[e], a, "Credit"))
       /\ balance' # balance => journal_entries' # journal_entries
       /\ \/ journal_entries' = journal_entries
          \/ /\ Len(journal_entries') = Len(journal_entries) + 1
             /\ SubSeq(journal_entries', 1, Len(journal_entries)) = journal_entries
             /\ outcome'.op = "record_entry"
             /\ outcome'.ok]_vars

C4_Witness ==
    /\ outcome.op = "record_entry"
    /\ outcome.ok
    /\ Len(journal_entries) = 2
    /\ journal_entries[1] # journal_entries[2]
    /\ journal_entries[2] = outcome.entry
    /\ \E e \in DOMAIN lines : Len(lines[e]) = 2 /\ balance["cash"] # 0

---------------------------------------------------------------------------
(* Order workflow: C5 - C10 *)

Ended == pc \in {"Completed", "Error", "Raised"}

LedgerUntouched ==
    /\ balance = pre.balance
    /\ journal_entries = pre.journal_entries

\* An item of the request that asks for more than the stock of its product
\* held when the order arrived, or names a product the inventory lacks.
ShortItem(item) ==
    /\ {"product_id", "quantity"} \subseteq item.fields
    /\ \/ item.product_id \notin DOMAIN pre.stock
       \/ item.quantity > pre.stock[item.product_id]

\* The ways a request fails validation.
InvalidItem(item) ==
    \/ "product_id" \notin item.fields
    \/ "quantity" \notin item.fields
    \/ "unit_price" \notin item.fields
    \/ ~item.is_int
    \/ item.quantity < 1
    \/ item.unit_price < 0

InvalidRequest(o) ==
    \/ ~o.has_customer_id
    \/ o.items_kind # "list"
    \/ Len(o.items) = 0
    \/ \E i \in DOMAIN o.items : InvalidItem(o.items[i])

\* C5: when the posting step fails after the stock was decremented, the
\* run returns an error result with the stock of every product restored to
\* its value before the order.
C5_PostingFailureRestoresStock ==
    (pc = "Error" /\ result.message = FailedToRecord)
    => (result.status = "error" /\ stock = pre.stock)

\* C6: an order with an item that asks for more than the available stock of
\* its product, or for a product the inventory lacks, never gets past the
\* stock check: it ends in an error result, and stock, balances, the
\* committed sequence and the collection stay as they were.
C6_InsufficientStockNoMutation ==
    (order_data.items_kind = "list"
     /\ \E i \in DOMAIN order_data.items : ShortItem(order_data.items[i]))
    => /\ pc \in {"Validating", "StockChecking", "Error"}
       /\ pc = "Error" => result.status = "error"
       /\ stock = pre.stock
       /\ LedgerUntouched
       /\ saved = 0

C6_Witness ==
    /\ pc = "Error"
    /\ result = Error("Insufficient stock")
    /\ Len(order_data.items) = 2
    /\ ~ShortItem(order_data.items[1])
    /\ ShortItem(order_data.items[2])
    /\ order_data.items[2].product_id \in DOMAIN stock

\* C7: an order request that fails validation ends in an error result at
\* the validation step: no stock changes, no balance changes, no entry is
\* committed and nothing is written to the collection.
C7_InvalidRequestNoMutation ==
    InvalidRequest(order_data)
    => /\ pc \in {"Validating", "Error"}
       /\ pc = "Error" => result.status = "error"
       /\ stock = pre.stock
       /\ LedgerUntouched
       /\ lines = <<>>
       /\ saved = 0

C7_Witness ==
    /\ pc = "Error"
    /\ result = Error("Item quantity must be a positive integer")
    /\ Len(order_data.items) = 2
    /\ ~InvalidItem(order_data.items[1])
    /\ order_data.items[1].product_id \in DOMAIN stock
    /\ order_data.items[2].quantity = 0
    /\ collection # None

\* C8: when saving the order fails, the run returns the error with the
\* stock of every product equal to its value before the order.
C8_SaveFailureRestoresStock ==
    (pc = "Error" /\ result.message = "Failed to save order to database")
    => stock = pre.stock

\* The step in which the persistence collaborator is invoked.
InsertOneStep == pc = "Saving" /\ collection # None /\ pc' # pc

\* C9 as stated: the collaborator is invoked only after the order's journal
\* entry has been recorded in the ledger.
C9_SavedAfterLedgerCommit ==
    [][InsertOneStep
       => Len(journal_entries) = Len(pre.journal_entries) + 1]_vars

\* C9 as amended: the collaborator is invoked after the stock of all items
\* has been decremented and before any journal entry of the order is
\* recorded, so a failure of the collaborator is reported with the ledger
\* untouched.
C9_SavedBeforeLedgerCommit ==
    [][InsertOneStep
       => /\ idx = Len(processed_items)
          /\ LedgerUntouched
          /\ lines = <<>>
          /\ balance' = balance
          /\ journal_entries' = journal_entries
          /\ pc' \in {"Posting", "Error"}
          /\ pc' = "Error" => result'.status = "error"]_vars

C9_Witness ==
    /\ pc = "Error"
    /\ result = Error("Failed to save order to database")
    /\ stock # pre.stock
    /\ LedgerUntouched
    /\ DOMAIN accounts = {AccName(a) : a \in OrderObjects}

\* The steps of the design: saving the order belongs to StockReserved.
Stage(p) == IF p = "Saving" THEN "StockReserved" ELSE p

StageOrder ==
    {<<"Validating", "StockChecking">>, <<"StockChecking", "StockReserved">>,
     <<"StockReserved", "Posting">>, <<"Posting", "Completed">>}

\* C10: a run goes through Validating, StockChecking, StockReserved, Posting
\* and Completed in this order, leaving the chain only for Error (or by
\* raising); stock is decremented only in StockReserved, for an order whose
\* items all passed the stock check; an entry is recorded only in Posting,
\* with the stock of all items decremented; success is returned only with
\* the entry recorded; and a run that has reached Error changes nothing.
C10_StepOrder ==
    [][/\ Stage(pc') # Stage(pc)
            => \/ <<Stage(pc), Stage(pc')>> \in StageOrder
               \/ pc' = "Error"
               \/ pc' = "Raised" /\ pc = "StockReserved"
       /\ stock' # stock
            => /\ pc = "StockReserved"
               /\ \A i \in DOMAIN processed_items :
                     /\ processed_items[i].product_id \in DOMAIN pre.stock
                     /\ processed_items[i].quantity
                          <= pre.stock[processed_items[i].product_id]
       /\ (journal_entries' # journal_entries \/ balance' # balance)
            => /\ pc = "Posting"
               /\ idx = Len(processed_items)
               /\ stock # pre.stock
       /\ result'.status = "success"
            => /\ pc' = "Completed"
               /\ Len(journal_entries') = Len(pre.journal_entries) + 1
       /\ pc = "Error" => UNCHANGED vars]_vars

C10_Witness ==
    /\ pc = "Completed"
    /\ result.status = "success"
    /\ Len(processed_items) = 2
    /\ idx = 2
    /\ saved = 1
    /\ Len(journal_entries) = 1
    /\ Len(lines[journal_entries[1]]) = 4

---------------------------------------------------------------------------
(* Order workflow, results and postings: C11 - C13 *)

\* What the request asks for, computed from order_data['items'].
OrderedQuantity(items, p) ==
    LET f[i \in 0..Len(items)] ==
            IF i = 0 THEN 0
            ELSE f[i - 1] + (IF items[i].product_id = p THEN items[i].quantity ELSE 0)
    IN  f[Len(items)]

OrderTotal(items) ==
    LET f[i \in 0..Len(items)] ==
            IF i = 0 THEN 0
            ELSE f[i - 1] + items[i].quantity * items[i].unit_price
    IN  f[Len(items)]

OrderCost(items) ==
    LET f[i \in 0..Len(items)] ==
            IF i = 0 THEN 0
            ELSE f[i - 1] + items[i].quantity
                            * (IF items[i].product_id \in InventoryProducts
                               THEN CostPrice(items[i].product_id) ELSE 0)
    IN  f[Len(items)]

\* C11: a run that has ended has returned a structured result whose status
\* is success or error; no run ends by raising.
C11_AlwaysStructuredResult ==
    Ended => (pc # "Raised" /\ result.status \in {"success", "error"})

\* C12: when the run returns success, the stock of every product is lower
\* by the quantity ordered of it, Cash and Sales Revenue are higher by the
\* order total, with a positive cost of goods sold Cost of Goods Sold is
\* higher and Inventory lower by that cost, and the result carries the order
\* identifier and the total.
C12_SuccessEffects ==
    result.status = "success"
    => LET items == order_data.items
           total == OrderTotal(items)
           cost == OrderCost(items)
       IN  /\ \A p \in DOMAIN stock :
                 stock[p] = pre.stock[p] - OrderedQuantity(items, p)
           /\ balance[accounts["Cash"]] = pre.balance[accounts["Cash"]] + total
           /\ balance[accounts["Sales Revenue"]]
                 = pre.balance[accounts["Sales Revenue"]] + total
           /\ cost > 0
                 => /\ balance[accounts["Cost of Goods Sold"]]
                         = pre.balance[accounts["Cost of Goods Sold"]] + cost
                    /\ balance[accounts["Inventory"]]
                         = pre.balance[accounts["Inventory"]] - cost
           /\ result.order_id = NewOrderId
           /\ result.total_amount = to_float(total)

C12_Witness ==
    /\ pc = "Completed"
    /\ result.status = "success"
    /\ Len(order_data.items) = 2
    /\ stock = ("p1" :> 1) @@ ("p2" :> 0)
    /\ balance["cash"] = 2
    /\ balance["revenue"] = 2
    /\ balance["cogs"] = 1
    /\ balance["inventory"] = -1
    /\ result.total_amount = to_float(2)

\* A successful order with a positive cost of goods sold.
SoldAtCost ==
    /\ result.status = "success"
    /\ OrderCost(order_data.items) > 0

\* C13 as stated: such an order commits two balanced entries, the sale pair
\* and the COGS pair: the committed sequence grows by exactly two entries.
C13_TwoEntriesCommitted ==
    SoldAtCost
    => /\ Len(journal_entries) = Len(pre.journal_entries) + 2
       /\ \A i \in DOMAIN journal_entries : is_balanced(lines[journal_entries[i]])

\* C13 as amended: such an order commits one balanced entry that holds both
\* pairs, the sale pair (debit Cash, credit Sales Revenue, the total) and
\* the COGS pair (debit Cost of Goods Sold, credit Inventory, the cost): the
\* committed sequence grows by exactly one entry of four lines.
C13_OneEntryTwoPairs ==
    SoldAtCost
    => /\ Len(journal_entries) = Len(pre.journal_entries) + 1
       /\ LET ls == lines[journal_entries[Len(journal_entries)]]
               total == OrderTotal(order_data.items)
               cost == OrderCost(order_data.items)
           IN  /\ [i \in DOMAIN ls |-> <<AccName(ls[i].account), ls[i].amount,
                                        ls[i].entry_type>>]
                     = << <<"Cash", total, "Debit">>,
                          <<"Sales Revenue", total, "Credit">>,
                          <<"Cost of Goods Sold", cost, "Debit">>,
                          <<"Inventory", cost, "Credit">> >>
               /\ \A i \in DOMAIN ls : ls[i].account \in Registered(accounts)
               /\ DebitTotal(ls) = CreditTotal(ls)

C13_Witness ==
    /\ pc = "Completed"
    /\ SoldAtCost
    /\ Len(order_data.items) = 1
    /\ order_data.items[1].quantity = 2
    /\ OrderTotal(order_data.items) = 2
    /\ OrderCost(order_data.items) = 2
    /\ Len(journal_entries) = 1

---------------------------------------------------------------------------
(* Committed entries and lines: C14, C15, C17 *)

\* The entries held in the committed sequence.
Committed == {journal_entries[i] : i \in DOMAIN journal_entries}

\* What the lines now held by the committed entries say about account a.
CommittedEffect(a) ==
    LET f[i \in 0..Len(journal_entries)] ==
            IF i = 0 THEN 0
            ELSE f[i - 1]
                 + Polarity(AccType(a))
                   * (LineSum(lines[journal_entries[i]], a, "Debit")
                      - LineSum(lines[journal_entries[i]], a, "Credit"))
    IN  f[Len(journal_entries)]

\* C14: in every reachable state the balance of every registered account is
\* its initial balance plus the polarity-signed sum of the amounts of the
\* lines on it in the entries held in the committed sequence.
C14_BalancesMatchCommitted ==
    \A a \in Registered(accounts) :
        balance[a] = initial_balance[a] + CommittedEffect(a)

\* C15: no step changes the lines of an entry that is in the committed
\* sequence, and every entry in the committed sequence is balanced in every
\* reachable state.
C15_CommittedImmutable ==
    /\ [](\A e \in Committed : DebitTotal(lines[e]) = CreditTotal(lines[e]))
    /\ [][\A e \in Committed : lines'[e] = lines[e]]_vars

AddLineStep(e) == outcome'.op = "add_line" /\ outcome'.entry = e

\* C17: add_line with an amount that is zero or negative fails and leaves
\* the lines of the entry as they were, and with a positive amount it
\* succeeds; a successful add_line appends exactly one line, with that
\* amount, at the end of the entry's lines and changes no other entry and no
\* balance; so every line of every entry has an amount > 0.
C17_LinesStrictlyPositive ==
    /\ [](\A e \in DOMAIN lines : \A i \in DOMAIN lines[e] : lines[e][i].amount > 0)
    /\ [][\A e \in DOMAIN lines :
            AddLineStep(e)
            => /\ outcome'.ok <=> outcome'.amount > 0
               /\ ~outcome'.ok => lines' = lines
               /\ outcome'.ok
                    => /\ Len(lines'[e]) = Len(lines[e]) + 1
                       /\ SubSeq(lines'[e], 1, Len(lines[e])) = lines[e]
                       /\ lines'[e][Len(lines'[e])].amount = outcome'.amount
                       /\ \A f \in DOMAIN lines \ {e} : lines'[f] = lines[f]
               /\ balance' = balance
               /\ journal_entries' = journal_entries]_vars

C17_Witness ==
    /\ outcome.op = "add_line"
    /\ ~outcome.ok
    /\ outcome.amount = 0
    /\ Len(lines[outcome.entry]) = 1
    /\ lines[outcome.entry][1].amount = 2
    /\ Len(journal_entries) = 1

---------------------------------------------------------------------------
(* Amounts of debit and credit: C16 *)

DirectCall == outcome'.op \in {"debit", "credit"}

\* C16: debit and credit with a negative amount fail and leave the balance
\* of every account as it was; with an amount that is zero or positive they
\* succeed, and an amount of zero leaves the balances as they were.
C16_NegativeAmountRejected ==
    [][DirectCall
       => /\ outcome'.amount < 0 => (~outcome'.ok /\ balance' = balance)
          /\ outcome'.amount >= 0 => outcome'.ok
          /\ outcome'.amount = 0 => balance' = balance
          /\ outcome'.amount > 0 => balance'[outcome'.account] # balance[outcome'.account]
          /\ \A a \in DOMAIN balance \ {outcome'.account} : balance'[a] = balance[a]]_vars

C16_Witness ==
    /\ outcome.op = "credit"
    /\ ~outcome.ok
    /\ outcome.amount = -1
    /\ outcome.calls = 3
    /\ applied[outcome.account] = [debit |-> 2, credit |-> 0]
    /\ balance[outcome.account] # initial_balance[outcome.account]

---------------------------------------------------------------------------
(* is_balanced, add_account and get_account: C18 - C20 *)

\* Total of the amounts of the lines of ls on one side, line by line.
SideTotal(ls, entry_type) ==
    LET f[i \in 0..Len(ls)] ==
            IF i = 0 THEN 0
            ELSE f[i - 1] + (IF ls[i].entry_type = entry_type THEN ls[i].amount ELSE 0)
    IN  f[Len(ls)]

\* C18: is_balanced returns true exactly when the amounts of the Debit
\* lines and of the Credit lines of the entry have the same sum, and the
\* call changes no entry, no balance and nothing of the ledger.
C18_IsBalancedExact ==
    [][\A e \in DOMAIN lines :
          (outcome'.op = "is_balanced" /\ outcome'.entry = e)
          => /\ outcome'.ok <=> SideTotal(lines[e], "Debit") = SideTotal(lines[e], "Credit")
             /\ lines' = lines
             /\ balance' = balance
             /\ accounts' = accounts
             /\ journal_entries' = journal_entries]_vars

C18_Witness ==
    /\ outcome.op = "is_balanced"
    /\ ~outcome.ok
    /\ Len(lines[outcome.entry]) = 2
    /\ lines[outcome.entry][1].entry_type = "Debit"
    /\ lines[outcome.entry][1].amount = 1
    /\ lines[outcome.entry][2].entry_type = "Credit"
    /\ lines[outcome.entry][2].amount = 2

\* C19: add_account of an account whose name is already registered fails
\* and leaves the registry and every balance as they were; otherwise it
\* registers the account under its name.  Every name maps to an account of
\* that name, and no step removes or replaces a registered account.
C19_DuplicateAccountRejected ==
    /\ [](\A n \in DOMAIN accounts : AccName(accounts[n]) = n)
    /\ [][/\ \A a \in DOMAIN balance :
                (outcome'.op = "add_account" /\ outcome'.account = a)
                => IF AccName(a) \in DOMAIN accounts
                   THEN /\ ~outcome'.ok
                        /\ accounts' = accounts
                        /\ balance' = balance
                   ELSE /\ outcome'.ok
                        /\ DOMAIN accounts' = DOMAIN accounts \cup {AccName(a)}
                        /\ accounts'[AccName(a)] = a
           /\ \A n \in DOMAIN accounts :
                n \in DOMAIN accounts' /\ accounts'[n] = accounts[n]]_vars

C19_Witness ==
    /\ outcome.op = "add_account"
    /\ ~outcome.ok
    /\ outcome.account = "cash_dup"
    /\ DOMAIN accounts = {"Cash", "Sales Revenue"}
    /\ accounts["Cash"] = "cash"
    /\ balance["cash"] = 10
    /\ balance["cash_dup"] = 0

\* C20: get_account fails exactly when no account is registered under the
\* name; for a registered name it returns the registered account, whatever
\* its balance; and the call changes nothing of the ledger.
C20_GetAccountFailsIffAbsent ==
    [][\A name \in LedgerNames :
          GetAccount(name)
          => /\ outcome'.ok <=> name \in DOMAIN accounts
             /\ name \in DOMAIN accounts => outcome'.account = accounts[name]
             /\ accounts' = accounts
             /\ balance' = balance
             /\ journal_entries' = journal_entries
             /\ lines' = lines]_vars

C20_Witness ==
    /\ outcome.op = "get_account"
    /\ outcome.ok
    /\ outcome.account = "cash_dup"
    /\ accounts["Cash"] = "cash_dup"
    /\ balance["cash_dup"] = 0
    /\ "Sales Revenue" \notin DOMAIN accounts

---------------------------------------------------------------------------
(* Entry ids and registered accounts: C21, C22 *)

\* C21: in every reachable state no two positions of the committed sequence
\* hold the same entry id (an entry is identified by its entry_id).
C21_EntryIdsUnique ==
    \A i, j \in DOMAIN journal_entries :
        i # j => journal_entries[i] # journal_entries[j]

\* C22: record_entry commits an entry only if every one of its lines names
\* an account held in the ledger's mapping, and it changes the balance of
\* registered accounts only.
C22_OnlyRegisteredAccountsMutated ==
    [][\A e \in DOMAIN lines :
          RecordStep(e)
          => /\ outcome'.ok
                  => \A i \in DOMAIN lines[e] :
                        lines[e][i].account \in Registered(accounts)
             /\ \A a \in DOMAIN balance :
                  balance'[a] # balance[a] => a \in Registered(accounts)]_vars

---------------------------------------------------------------------------
(* Order of lines and of entries: C23 *)

Balanced(e) == DebitTotal(lines[e]) = CreditTotal(lines[e])

\* The lines ls in the order p.
Permuted(ls, p) == [i \in DOMAIN ls |-> ls[p[i]]]

\* record_entry of e and then of f, from the state as it is.
RecordBoth(e, f) ==
    LET r == record_entry(Here, journal_entries, e, lines[e])
    IN  record_entry([ok |-> r.ok, balance |-> r.balance, applied |-> r.applied],
                     r.journal_entries, f, lines[f])

\* C23: from any state, recording a balanced entry gives the same balances
\* for every order of its lines, and recording two balanced entries gives
\* the same balances in either order.
C23_OrderIndependent ==
    /\ \A e \in DOMAIN lines :
          Balanced(e)
          => \A p \in Permutations(DOMAIN lines[e]) :
                LET r == record_entry(Here, journal_entries, e, lines[e])
                    q == record_entry(Here, journal_entries, e, Permuted(lines[e], p))
                IN  r.ok /\ q.ok /\ r.balance = q.balance
    /\ \A e, f \in DOMAIN lines :
          (Balanced(e) /\ Balanced(f))
          => /\ RecordBoth(e, f).ok
             /\ RecordBoth(f, e).ok
             /\ RecordBoth(e, f).balance = RecordBoth(f, e).balance

C23_Witness ==
    /\ journal_entries = <<2, 1>>
    /\ Len(lines[1]) = 2
    /\ Len(lines[2]) = 2
    /\ lines[1][1].entry_type = "Credit"
    /\ lines[2][1].entry_type = "Debit"
    /\ lines[1][1].account = lines[1][2].account
    /\ lines[2][1].account # lines[2][2].account
    /\ lines[1][1].amount # lines[2][1].amount
    /\ balance["cash"] # 0

---------------------------------------------------------------------------
(* Order workflow, stock and outcomes: C24 - C26 *)

\* C24: when a run has ended, the stock of every product is lower than
\* before the order either by nothing or by the full quantity the items of
\* the order ask of that product.
C24_StockAllOrNothing ==
    Ended
    => \A p \in DOMAIN stock :
          pre.stock[p] - stock[p] \in {0, OrderedQuantity(order_data.items, p)}

\* The ledger holds the four accounts the workflow posts to.
FullLedger ==
    {"Cash", "Sales Revenue", "Cost of Goods Sold", "Inventory"} \subseteq DOMAIN accounts

\* The request passes validation, every item passes the stock check, and
\* no product is named by two items.
ValidAndInStock(o) ==
    /\ ~InvalidRequest(o)
    /\ \A i \in DOMAIN o.items : ~ShortItem(o.items[i])
    /\ \A i, j \in DOMAIN o.items :
          i # j => o.items[i].product_id # o.items[j].product_id

\* C25: a run for a valid order whose items are in stock, against a ledger
\* with the four accounts, ends in Completed with a success result unless
\* saving the order failed.
C25_ValidOrderCompletes ==
    (Ended /\ ValidAndInStock(order_data) /\ FullLedger
       /\ result.message # "Failed to save order to database")
    => (pc = "Completed" /\ result.status = "success")

\* C26: a run that returned an error result has left every account balance
\* and the committed sequence as they were before the call.
C26_ErrorLeavesLedgerUntouched ==
    (pc = "Error" \/ result.status = "error")
    => /\ pc = "Error"
       /\ result.status = "error"
       /\ LedgerUntouched

C26_Witness ==
    /\ pc = "Error"
    /\ result = Error(FailedToRecord)
    /\ DOMAIN accounts = {"Cash", "Sales Revenue", "Inventory"}
    /\ OrderTotal(order_data.items) > 0
    /\ OrderCost(order_data.items) > 0
    /\ stock # pre.stock
    /\ saved = 1
    /\ Len(lines[1]) = 2

---------------------------------------------------------------------------
(* The sale entry: C28, C29 *)

NotBalancedMessage == "Internal error: Journal entry for sale is not balanced"

\* C28: every entry the workflow has built is balanced, no run returns the
\* 'not balanced' internal error, and a run returns 'Failed to record
\* financial transaction' only because an account is missing or an amount
\* is not positive, never because record_entry found the entry unbalanced.
C28_SaleEntryBalanced ==
    /\ \A e \in DOMAIN lines :
          SideTotal(lines[e], "Debit") = SideTotal(lines[e], "Credit")
    /\ result.message # NotBalancedMessage
    /\ result.message = FailedToRecord
          => \/ {"Cash", "Sales Revenue"} \ DOMAIN accounts # {}
             \/ calculate_total(processed_items) <= 0
             \/ /\ calculate_total_cost_of_goods_sold(processed_items) > 0
                /\ {"Cost of Goods Sold", "Inventory"} \ DOMAIN accounts # {}

C28_Witness ==
    /\ pc = "Completed"
    /\ Len(journal_entries) = 1
    /\ Len(lines[journal_entries[1]]) = 4
    /\ SideTotal(lines[journal_entries[1]], "Debit") = 3
    /\ SideTotal(lines[journal_entries[1]], "Credit") = 3

\* Lines as (account name, amount, side).
Named(ls) ==
    [i \in DOMAIN ls |-> <<AccName(ls[i].account), ls[i].amount, ls[i].entry_type>>]

\* C29: a successful order whose cost of goods sold is zero has committed
\* an entry of exactly two lines, debit Cash and credit Sales Revenue, and
\* left the balances of the Cost of Goods Sold and Inventory accounts as
\* they were; the entry has the COGS pair only with a positive cost; and a
\* valid order of zero cost and positive total succeeds whether or not
\* those two accounts are registered.
C29_CogsPairOnlyWhenPositive ==
    LET items == order_data.items
        total == OrderTotal(items)
        cost == OrderCost(items)
    IN  /\ result.status = "success"
             => /\ Len(journal_entries) = 1
                /\ Len(lines[journal_entries[1]]) = IF cost > 0 THEN 4 ELSE 2
        /\ (result.status = "success" /\ cost = 0)
             => /\ Named(lines[journal_entries[1]])
                     = << <<"Cash", total, "Debit">>,
                          <<"Sales Revenue", total, "Credit">> >>
                /\ balance["cogs"] = pre.balance["cogs"]
                /\ balance["inventory"] = pre.balance["inventory"]
        /\ (Ended /\ ValidAndInStock(order_data) /\ cost = 0 /\ total > 0
               /\ {"Cash", "Sales Revenue"} \subseteq DOMAIN accounts
               /\ result.message # "Failed to save order to database")
             => (pc = "Completed" /\ result.status = "success")

C29_Witness ==
    /\ pc = "Completed"
    /\ result.status = "success"
    /\ DOMAIN accounts = {"Cash", "Sales Revenue"}
    /\ OrderCost(order_data.items) = 0
    /\ OrderTotal(order_data.items) = 1
    /\ stock["p2"] = 0
    /\ balance["cash"] = 1

---------------------------------------------------------------------------
(* Stock: C27 *)

InventoryCall(op) == outcome'.op = op /\ pc' = "idle"

\* C27: the stock of every product is >= 0 in every reachable state; an
\* update_stock that asks for more than the stock of the product, or names
\* a product the inventory lacks, fails and leaves every stock as it was,
\* and any other update_stock takes the quantity from that product only;
\* check_stock is false for a product the inventory lacks, true exactly
\* when the stock covers the quantity otherwise, and changes no stock.
C27_StockNeverNegative ==
    /\ [](\A p \in DOMAIN stock : stock[p] >= 0)
    /\ [][LET p == outcome'.account
              q == outcome'.amount
          IN  /\ InventoryCall("update_stock")
                   => IF p \notin DOMAIN stock \/ q > stock[p]
                      THEN ~outcome'.ok /\ stock' = stock
                      ELSE /\ outcome'.ok
                           /\ stock'[p] = stock[p] - q
                           /\ \A o \in DOMAIN stock \ {p} : stock'[o] = stock[o]
              /\ InventoryCall("check_stock")
                   => /\ outcome'.ok <=> (p \in DOMAIN stock /\ stock[p] >= q)
                      /\ stock' = stock]_vars

C27_Witness ==
    /\ outcome.op = "update_stock"
    /\ ~outcome.ok
    /\ outcome.account = "p1"
    /\ outcome.amount = 1
    /\ outcome.calls = 3
    /\ stock = ("p1" :> 0) @@ ("p2" :> 0)

====
